---- MODULE Spec2Model ----
(***************************************************************************)
(* Model of the gdpr_consent vendor consent string codec                   *)
(* (src/src/vendor_consent.rs): VendorConsent::to_string / serialize_v1    *)
(* and VendorConsent::from_str / parse_v1, down to the bit level.          *)
(*                                                                         *)
(* A bit stream is a sequence of 0/1, most significant bit first.  A       *)
(* string is a sequence of one-character strings.  A BitSet (bit_set       *)
(* crate over bit_vec::BitVec) is [nbits, bits]: the length of the         *)
(* underlying BitVec and the set of 0-based positions that are set.        *)
(* TLC integers are 32 bits wide, so the i64 of a timestamp is kept as two *)
(* limbs [hi, lo] with value hi * 2^16 + lo and 0 <= lo < 2^16.            *)
(***************************************************************************)
EXTENDS Integers, Sequences, FiniteSets

----------------------------------------------------------------------------
(* Bit-level helpers shared by the reader and the writer.                  *)

Pow2(n) == 2 ^ n

\* the `width` low bits of value, MSB first
ToBits(width, value) == [i \in 1..width |-> (value \div Pow2(width - i)) % 2]

RECURSIVE FromBitsAcc(_, _, _)
FromBitsAcc(bits, i, acc) ==
  IF i > Len(bits) THEN acc ELSE FromBitsAcc(bits, i + 1, 2 * acc + bits[i])

\* the unsigned value of a bit sequence, MSB first
FromBits(bits) == FromBitsAcc(bits, 1, 0)

Zeros(n) == [i \in 1..n |-> 0]

CeilDiv8(n) == n \div 8 + (IF n % 8 = 0 THEN 0 ELSE 1)

----------------------------------------------------------------------------
(* bit_set::BitSet / bit_vec::BitVec                                       *)

BitSetNew == [nbits |-> 0, bits |-> {}]

\* BitVec::from_elem(n, b) wrapped by BitSet::from_bit_vec
from_elem(n, b) == [nbits |-> n, bits |-> IF b THEN 0..(n - 1) ELSE {}]

\* BitSet::len: the number of set bits
BitSetLen(s) == Cardinality(s.bits)

\* BitVec::to_bytes: ceil(nbits / 8) bytes, bit 0 is the MSB of byte 0,
\* the unused low bits of the last byte are 0
to_bytes(s) ==
  [i \in 1..(8 * CeilDiv8(s.nbits)) |-> IF (i - 1) \in s.bits THEN 1 ELSE 0]

\* BitSet::from_bytes over a buffer given as its bits: nbits = 8 * bytes
from_bytes(bits) ==
  [nbits |-> Len(bits), bits |-> {i - 1 : i \in {j \in 1..Len(bits) : bits[j] = 1}}]

\* BitSet::difference_with: self grows to other's length, then self & !other
difference_with(self, other) ==
  [nbits |-> IF self.nbits < other.nbits THEN other.nbits ELSE self.nbits,
   bits |-> self.bits \ other.bits]

\* BitSet::remove: clears the bit, never shrinks the BitVec
BitSetRemove(s, i) == [s EXCEPT !.bits = @ \ {i}]

\* BitSet equality compares the elements, not the capacity
BitSetEq(a, b) == a.bits = b.bits

----------------------------------------------------------------------------
(* base64 crate: STANDARD on decode, URL_SAFE_NO_PAD on encode             *)

STANDARD ==
  <<
     "A", "B", "C", "D", "E", "F", "G", "H", "I", "J", "K", "L", "M", "N", "O", "P",
     "Q", "R", "S", "T", "U", "V", "W", "X", "Y", "Z", "a", "b", "c", "d", "e", "f",
     "g", "h", "i", "j", "k", "l", "m", "n", "o", "p", "q", "r", "s", "t", "u", "v",
     "w", "x", "y", "z", "0", "1", "2", "3", "4", "5", "6", "7", "8", "9", "+", "/" >>

URL_SAFE ==
  <<
     "A", "B", "C", "D", "E", "F", "G", "H", "I", "J", "K", "L", "M", "N", "O", "P",
     "Q", "R", "S", "T", "U", "V", "W", "X", "Y", "Z", "a", "b", "c", "d", "e", "f",
     "g", "h", "i", "j", "k", "l", "m", "n", "o", "p", "q", "r", "s", "t", "u", "v",
     "w", "x", "y", "z", "0", "1", "2", "3", "4", "5", "6", "7", "8", "9", "-", "_" >>

Base64Chars == {STANDARD[i] : i \in 1..64} \cup {URL_SAFE[i] : i \in 1..64} \cup {"="}

\* the 6-bit value of a character in the standard alphabet, -1 if it has none
StdValue == [c \in Base64Chars |->
  IF \E i \in 1..64 : STANDARD[i] = c
    THEN (CHOOSE i \in 1..64 : STANDARD[i] = c) - 1 ELSE -1]

\* encode with an alphabet and no padding: 6 bits per character, the last
\* group is filled with zero bits
Base64Encode(alphabet, raw) ==
  LET n == (Len(raw) + 5) \div 6
      padded == raw \o Zeros(6 * n - Len(raw))
  IN [k \in 1..n |-> alphabet[FromBits(SubSeq(padded, 6 * k - 5, 6 * k)) + 1]]

\* base64::encode_config(&raw, base64::URL_SAFE_NO_PAD)
encode_config(raw) == Base64Encode(URL_SAFE, raw)

RECURSIVE StripPad(_, _)
StripPad(s, k) ==
  IF k > 0 /\ Len(s) > 0 /\ s[Len(s)] = "="
    THEN StripPad(SubSeq(s, 1, Len(s) - 1), k - 1) ELSE s

\* base64::decode(s): standard alphabet, trailing '=' padding optional.
\* Ok carries the bits of the decoded bytes.
base64_decode(s) ==
  LET t == StripPad(s, 2)
      n == Len(t)
  IN IF \E k \in 1..n : StdValue[t[k]] < 0
       THEN [tag |-> "Err", kind |-> "Base64DecodeError"]
     ELSE IF n % 4 = 1
       THEN [tag |-> "Err", kind |-> "Base64DecodeError"]
     ELSE LET all == [i \in 1..(6 * n) |->
                       ToBits(6, StdValue[t[(i + 5) \div 6]])[((i - 1) % 6) + 1]]
          IN [tag |-> "Ok", data |-> SubSeq(all, 1, 8 * ((6 * n) \div 8))]

----------------------------------------------------------------------------
(* chrono::DateTime<Utc>: whole seconds since the epoch (two limbs) and    *)
(* the nanoseconds within the second.                                      *)

DECISECS_IN_SEC == 10
MILLISECS_IN_DECISEC == 100
NANOSECS_IN_DECISEC == 100000000

Limb == 65536

\* Utc.timestamp(secs, nanos)
Utc_timestamp(secs, nanos) == [secs |-> secs, nanos |-> nanos]

\* DateTime::timestamp
timestamp(dt) == dt.secs

\* DateTime::timestamp_subsec_millis
timestamp_subsec_millis(dt) == dt.nanos \div 1000000

\* w * m + a on the limbs, m and a small
WideMulAdd(w, m, a) ==
  LET low == w.lo * m + a
  IN [hi |-> w.hi * m + (low \div Limb), lo |-> low % Limb]

\* w / m and w % m on the limbs, m small
WideDiv(w, m) ==
  LET rest == (w.hi % m) * Limb + w.lo
  IN [hi |-> w.hi \div m, lo |-> rest \div m]

WideMod(w, m) == ((w.hi % m) * Limb + w.lo) % m

\* v.created.timestamp() * 10 + (v.created.timestamp_subsec_millis() / 100) as i64
decisecs(dt) ==
  WideMulAdd(timestamp(dt), DECISECS_IN_SEC,
             timestamp_subsec_millis(dt) \div MILLISECS_IN_DECISEC)

\* Utc.timestamp(x / 10, (x % 10) as u32 * NANOSECS_IN_DECISEC) of a wire value
from_decisecs(w) ==
  Utc_timestamp(WideDiv(w, DECISECS_IN_SEC),
                WideMod(w, DECISECS_IN_SEC) * NANOSECS_IN_DECISEC)

----------------------------------------------------------------------------
(* bitstream_io::BitWriter<BigEndian>                                      *)

\* BitWriter::write(bits, value) accepts the value only when it fits:
\* otherwise io::Error "excessive value for bits written"
write_fits(bits, value) == value < Pow2(bits)

\* the same test for the 36-bit write of an i64 held as limbs
write_fits_wide(bits, w) == w.hi < Pow2(bits - 16)

\* the bits that write(bits, value) appends
write(bits, value) == ToBits(bits, value)

write_wide(bits, w) == ToBits(bits - 16, w.hi) \o ToBits(16, w.lo)

\* BitWriter::byte_align: zero bits up to the next byte boundary
byte_align(raw) == raw \o Zeros((8 - (Len(raw) % 8)) % 8)

\* `x as u16`
as_u16(x) == x % 65536

----------------------------------------------------------------------------
(* Range entries and the contiguous-run detector                           *)

Single(x) == [kind |-> "Single", start |-> x, end |-> x]
Range(s, e) == [kind |-> "Range", start |-> s, end |-> e]

None == -1

\* close_run that writes a run of one position as a Range as well
close_run_always_range(start, end) ==
  [entry |-> Range(start + 1, end + 1), bits |-> 33]

\* the entry and the bit count that a closed run adds
close_run(start, end) ==
  IF start = end
    THEN [entry |-> Single(start + 1), bits |-> 17]
    ELSE [entry |-> Range(start + 1, end + 1), bits |-> 33]

\* the loop `for i in vendor_consent.iter()` of create_true_range from
\* position i on: BitSet::iter yields the set positions in ascending order
RECURSIVE true_range_loop(_, _, _, _, _, _)
true_range_loop(set, i, range, count, start, end) ==
  IF i >= set.nbits
    THEN \* close range if open
         IF start # None
           THEN [range |-> Append(range, close_run(start, end).entry),
                 count |-> count + close_run(start, end).bits]
           ELSE [range |-> range, count |-> count]
  ELSE IF i \notin set.bits
    THEN true_range_loop(set, i + 1, range, count, start, end)
  ELSE IF start = None
    THEN true_range_loop(set, i + 1, range, count, i, i)
  ELSE IF i = end + 1
    THEN true_range_loop(set, i + 1, range, count, start, i)
  ELSE true_range_loop(set, i + 1, Append(range, close_run(start, end).entry),
                       count + close_run(start, end).bits, i, i)

create_true_range(vendor_consent) ==
  true_range_loop(vendor_consent, 0, <<>>, 13, None, None)

create_false_range(vendor_consent, max_vendor_id) ==
  create_true_range(difference_with(from_elem(max_vendor_id, TRUE), vendor_consent))

\* the bits one entry adds in encode_range
entry_bits(e) ==
  IF e.kind = "Single"
    THEN write(1, 0) \o write(16, as_u16(e.start))
    ELSE write(1, 1) \o write(16, as_u16(e.start)) \o write(16, as_u16(e.end))

RECURSIVE entries_bits(_, _)
entries_bits(range, k) ==
  IF k > Len(range) THEN <<>> ELSE entry_bits(range[k]) \o entries_bits(range, k + 1)

\* encode_range without the closing byte_align: Err when the 12-bit count
\* does not hold range.len() as u16
encode_range(default_consent, range) ==
  IF ~write_fits(12, as_u16(Len(range)))
    THEN [tag |-> "Err", kind |-> "IoError"]
    ELSE [tag |-> "Ok",
          bits |-> write(1, IF default_consent THEN 1 ELSE 0)
                   \o write(12, as_u16(Len(range)))
                   \o entries_bits(range, 1)]

----------------------------------------------------------------------------
(* Encoder: VendorConsent::to_string -> serialize_v1                       *)

ErrOther == [tag |-> "Err", kind |-> "Other"]
ErrIo == [tag |-> "Err", kind |-> "IoError"]
ErrFromUtf8 == [tag |-> "Err", kind |-> "FromUtf8Error"]
ErrUnsupportedVersion(v) == [tag |-> "Err", kind |-> "UnsupportedVersion", code |-> v]
Panic == [tag |-> "Panic"]

LowerA == 97
LowerZ == 122

\* language_ok without the upper bound `> 'z'`
language_ok_no_upper_bound(lang) ==
  /\ Len(lang) = 2
  /\ \A i \in 1..2 : ~(lang[i] < LowerA)

\* the two checks on consent_language at the head of serialize_v1
language_ok(lang) ==
  /\ Len(lang) = 2
  /\ \A i \in 1..2 : ~(lang[i] < LowerA \/ lang[i] > LowerZ)

\* every write of the fixed fields is accepted by the writer
header_fits(v) ==
  /\ write_fits_wide(36, decisecs(v.created))
  /\ write_fits_wide(36, decisecs(v.last_updated))
  /\ write_fits(12, v.cmp_id)
  /\ write_fits(12, v.cmp_version)
  /\ write_fits(6, v.consent_screen)
  /\ \A i \in 1..2 : write_fits(6, v.consent_language[i] - LowerA)
  /\ write_fits(12, v.vendor_list_version)
  /\ write_fits(16, as_u16(v.max_vendor_id))

\* the bits written before the encoding selector
header_bits(v) ==
  write(6, 1)
  \o write_wide(36, decisecs(v.created))
  \o write_wide(36, decisecs(v.last_updated))
  \o write(12, v.cmp_id)
  \o write(12, v.cmp_version)
  \o write(6, v.consent_screen)
  \o write(6, v.consent_language[1] - LowerA)
  \o write(6, v.consent_language[2] - LowerA)
  \o write(12, v.vendor_list_version)
  \o to_bytes(v.purposes_allowed)
  \o write(16, as_u16(v.max_vendor_id))

\* default_consent_of with the division rounded up
default_consent_of_rounded_up(v) ==
  BitSetLen(v.vendor_consent) >= (v.max_vendor_id + 1) \div 2

\* default to true if more than half of bits are set
default_consent_of(v) == BitSetLen(v.vendor_consent) >= v.max_vendor_id \div 2

range_of(v) ==
  IF default_consent_of(v)
    THEN create_false_range(v.vendor_consent, v.max_vendor_id)
    ELSE create_true_range(v.vendor_consent)

\* encoding_type_of that takes the range whatever its length
encoding_type_of_always_range(v) == 1

\* encoding_type_of with `<` for `<=`: a tie goes to the range
encoding_type_of_tie_to_range(v) == IF v.max_vendor_id < range_of(v).count THEN 0 ELSE 1

\* choose smaller encoding
encoding_type_of(v) == IF v.max_vendor_id <= range_of(v).count THEN 0 ELSE 1

\* Ok carries the string and, beside it, what the call computed on the way:
\* the selector, the default flag, the range candidate with its bit count,
\* the bytes before base64 (raw) and the payload bits written after the
\* selector and before the closing byte_align.
serialize_v1(v) ==
  IF ~language_ok(v.consent_language) THEN ErrOther
  ELSE IF ~header_fits(v) THEN ErrIo
  ELSE
    LET default_consent == default_consent_of(v)
        r == range_of(v)
        encoding_type == encoding_type_of(v)
        enc == encode_range(default_consent, r.range)
        payload == IF encoding_type = 0 THEN to_bytes(v.vendor_consent) ELSE enc.bits
        head == header_bits(v) \o write(1, encoding_type)
        raw == byte_align(head \o payload)
    IN IF encoding_type = 1 /\ enc.tag = "Err" THEN ErrIo
       ELSE [tag |-> "Ok",
             str |-> encode_config(raw),
             raw |-> raw,
             head_len |-> Len(head),
             payload |-> payload,
             encoding_type |-> encoding_type,
             default_consent |-> default_consent,
             range |-> r.range,
             range_encoded_len |-> r.count]

to_string(v) == serialize_v1(v)

----------------------------------------------------------------------------
(* Decoder: bitstream_io::BitReader<BigEndian>, parse_v1 and from_str      *)

\* BitReader::read fails with UnexpectedEof when fewer bits remain
can_read(data, pos, width) == pos + width <= Len(data)

read(data, pos, width) == FromBits(SubSeq(data, pos + 1, pos + width))

read_wide(data, pos, width) ==
  [hi |-> read(data, pos, width - 16), lo |-> read(data, pos + width - 16, 16)]

parse_v1_bitfield(data, pos, max_vendor_id) ==
  LET buf_size == max_vendor_id \div 8 + (IF max_vendor_id % 8 = 0 THEN 0 ELSE 1)
      rem == max_vendor_id % 8
      \* read full bytes
      full == SubSeq(data, pos + 1, pos + 8 * buf_size)
  IN IF ~can_read(data, pos, 8 * buf_size) THEN ErrIo
     \* read remainder
     ELSE IF rem > 0 /\ ~can_read(data, pos + 8 * buf_size, rem) THEN ErrIo
     ELSE IF rem > 0
       THEN [tag |-> "Ok",
             set |-> from_bytes(full \o ToBits(8, read(data, pos + 8 * buf_size, rem)))]
     ELSE [tag |-> "Ok", set |-> from_bytes(full)]

\* BitVec::set(i, x) panics unless i < nbits; `id - 1` underflows for id = 0
\* (a panic in a debug build, usize::MAX and so out of bounds in a release one)
set_panics(buf, id) == id = 0 \/ id - 1 >= buf.nbits

\* bitvec_set that sets the bit whatever the value asked for
bitvec_set_always_true(buf, i, x) == [buf EXCEPT !.bits = @ \cup {i}]

bitvec_set(buf, i, x) ==
  [buf EXCEPT !.bits = IF x THEN @ \cup {i} ELSE @ \ {i}]

\* the loop `for _ in 0..num_entries` of parse_v1_range with n entries left
RECURSIVE range_entries(_, _, _, _, _)
range_entries(data, pos, n, buf, default_consent) ==
  IF n = 0 THEN [tag |-> "Ok", set |-> buf]
  ELSE IF ~can_read(data, pos, 1) THEN ErrIo
  ELSE IF read(data, pos, 1) = 0
    THEN IF ~can_read(data, pos + 1, 16) THEN ErrIo
         ELSE LET id == read(data, pos + 1, 16)
              IN IF set_panics(buf, id) THEN Panic
                 ELSE range_entries(data, pos + 17, n - 1,
                                    bitvec_set(buf, id - 1, ~default_consent),
                                    default_consent)
  ELSE IF ~can_read(data, pos + 1, 16) \/ ~can_read(data, pos + 17, 16) THEN ErrIo
       ELSE LET start == read(data, pos + 1, 16)
                end == read(data, pos + 17, 16)
            IN IF \E id \in start..end : set_panics(buf, id) THEN Panic
               ELSE range_entries(data, pos + 33, n - 1,
                      [buf EXCEPT !.bits =
                         IF ~default_consent THEN @ \cup {id - 1 : id \in start..end}
                                             ELSE @ \ {id - 1 : id \in start..end}],
                      default_consent)

parse_v1_range(data, pos, max_vendor_id) ==
  IF ~can_read(data, pos, 1) THEN ErrIo
  ELSE IF ~can_read(data, pos + 1, 12) THEN ErrIo
  ELSE LET default_consent == read(data, pos, 1) = 1
           num_entries == read(data, pos + 1, 12)
       IN range_entries(data, pos + 13, num_entries,
                        from_elem(max_vendor_id, default_consent), default_consent)

\* String::from_utf8 of the two bytes read(6) + 'a' (97..160): bytes from 128
\* on are UTF-8 continuation bytes and cannot start a character
from_utf8_ok(buf) == \A i \in 1..Len(buf) : buf[i] < 128

\* parse_v1 with the reader standing after the 6-bit version
parse_v1(data) ==
  LET pCreated == 6
      pUpdated == pCreated + 36
      pCmpId == pUpdated + 36
      pCmpVersion == pCmpId + 12
      pScreen == pCmpVersion + 12
      pLang == pScreen + 6
      pVlv == pLang + 12
      pPurposes == pVlv + 12
      pMax == pPurposes + 24
      pSelector == pMax + 16
      pPayload == pSelector + 1
      lang == <<read(data, pLang, 6) + LowerA, read(data, pLang + 6, 6) + LowerA>>
      max_vendor_id == read(data, pMax, 16)
      vc == IF read(data, pSelector, 1) = 0
              THEN parse_v1_bitfield(data, pPayload, max_vendor_id)
              ELSE parse_v1_range(data, pPayload, max_vendor_id)
  IN IF \/ ~can_read(data, pCreated, 36) \/ ~can_read(data, pUpdated, 36)
        \/ ~can_read(data, pCmpId, 12) \/ ~can_read(data, pCmpVersion, 12)
        \/ ~can_read(data, pScreen, 6)
        \/ ~can_read(data, pLang, 6) \/ ~can_read(data, pLang + 6, 6)
       THEN ErrIo
     ELSE IF ~from_utf8_ok(lang) THEN ErrFromUtf8
     ELSE IF \/ ~can_read(data, pVlv, 12) \/ ~can_read(data, pPurposes, 24)
             \/ ~can_read(data, pMax, 16) \/ ~can_read(data, pSelector, 1)
       THEN ErrIo
     ELSE IF vc.tag # "Ok" THEN vc
     ELSE [tag |-> "Ok",
           v |-> [created |-> from_decisecs(read_wide(data, pCreated, 36)),
                  last_updated |-> from_decisecs(read_wide(data, pUpdated, 36)),
                  cmp_id |-> read(data, pCmpId, 12),
                  cmp_version |-> read(data, pCmpVersion, 12),
                  consent_screen |-> read(data, pScreen, 6),
                  consent_language |-> lang,
                  vendor_list_version |-> read(data, pVlv, 12),
                  purposes_allowed |-> from_bytes(SubSeq(data, pPurposes + 1, pPurposes + 24)),
                  max_vendor_id |-> max_vendor_id,
                  vendor_consent |-> vc.set]]

\* from_str with the match arm `1 =>` widened to `0 | 1 =>`
from_str_accepts_version_0(s) ==
  LET dec == base64_decode(s)
  IN IF dec.tag = "Err" THEN dec
     ELSE IF ~can_read(dec.data, 0, 6) THEN ErrIo
     ELSE LET version == read(dec.data, 0, 6)
          IN IF version <= 1 THEN parse_v1(dec.data)
             ELSE ErrUnsupportedVersion(version)

\* VendorConsent::from_str
from_str(s) ==
  LET dec == base64_decode(s)
  IN IF dec.tag = "Err" THEN dec
     ELSE IF ~can_read(dec.data, 0, 6) THEN ErrIo
     ELSE LET version == read(dec.data, 0, 6)
          IN IF version = 1 THEN parse_v1(dec.data)
             ELSE ErrUnsupportedVersion(version)

\* #[derive(PartialEq)] on V1: field by field, a BitSet by its elements
V1Eq(a, b) ==
  /\ a.created = b.created
  /\ a.last_updated = b.last_updated
  /\ a.cmp_id = b.cmp_id
  /\ a.cmp_version = b.cmp_version
  /\ a.consent_screen = b.consent_screen
  /\ a.consent_language = b.consent_language
  /\ a.vendor_list_version = b.vendor_list_version
  /\ BitSetEq(a.purposes_allowed, b.purposes_allowed)
  /\ a.max_vendor_id = b.max_vendor_id
  /\ BitSetEq(a.vendor_consent, b.vendor_consent)

----------------------------------------------------------------------------
(* State: what a caller of the library holds.                              *)

VARIABLES
  v,       \* the V1 record in memory, NoValue for a caller that only parses
  out,     \* the result of to_string on v, NoValue before the call
  input,   \* the string last handed to from_str
  parsed,  \* the result of from_str(input), NoValue before the call
  again,   \* the result of to_string on the parsed record
  edits    \* how many times the caller modified a parsed record

vars == <<v, out, input, parsed, again, edits>>

NoValue == [tag |-> "None"]

\* bounds of the model
MaxVendorId == 48
MaxEdits == 1

\* 2017-11-07T19:15:55.4Z, the timestamp of tests::serialize_good
T0 == Utc_timestamp([hi |-> 23042, lo |-> 1643], 400000000)
\* 2018-05-11T12:00:00.000Z, the timestamp set by examples/modify_consent.rs
T1 == Utc_timestamp([hi |-> 23285, lo |-> 34240], 0)

Wide(n) == [hi |-> n \div Limb, lo |-> n % Limb]

\* timestamps a caller may hold: finer than 100 ms, on the 100 ms grid, and
\* past the 36-bit range of the wire (2^36 deciseconds = 2^20 * 6553.6 s)
Timestamps ==
  {T0, T1,
   Utc_timestamp(T0.secs, 450000000),
   Utc_timestamp(T0.secs, 999999999),
   Utc_timestamp(Wide(0), 0),
   Utc_timestamp([hi |-> 104857, lo |-> 39321], 500000000),
   Utc_timestamp([hi |-> 104857, lo |-> 39321], 600000000),
   Utc_timestamp([hi |-> 200000, lo |-> 0], 0)}

\* consent_language values as bytes: "en", "az", "zz", "EN", "e", "", "eng",
\* "a{", "`a", "e1"
Languages ==
  {<<101, 110>>, <<97, 122>>, <<122, 122>>, <<69, 78>>, <<101>>, <<>>,
   <<101, 110, 103>>, <<97, 123>>, <<96, 97>>, <<101, 49>>}

\* purposes_allowed as callers build it: BitSet::from_bytes of 3 bytes (the
\* tests), BitSet::new() with or without inserts, a wider set
PurposeSets ==
  {[nbits |-> 24, bits |-> {0, 1, 2}], [nbits |-> 24, bits |-> {}],
   [nbits |-> 24, bits |-> 0..23], [nbits |-> 24, bits |-> {23}],
   BitSetNew, [nbits |-> 3, bits |-> {0, 1, 2}], [nbits |-> 32, bits |-> {0, 31}]}

GoodHeader ==
  [created |-> T0, last_updated |-> T0, cmp_id |-> 7, cmp_version |-> 1,
   consent_screen |-> 3, consent_language |-> <<101, 110>>,
   vendor_list_version |-> 8, purposes_allowed |-> [nbits |-> 24, bits |-> {0, 1, 2}]]

\* the good header with one field changed
Headers ==
  {GoodHeader}
  \cup {[GoodHeader EXCEPT !.created = t] : t \in Timestamps}
  \cup {[GoodHeader EXCEPT !.last_updated = t] : t \in Timestamps}
  \cup {[GoodHeader EXCEPT !.cmp_id = x] : x \in {0, 4095, 4096, 65535}}
  \cup {[GoodHeader EXCEPT !.cmp_version = x] : x \in {0, 4095, 4096, 65535}}
  \cup {[GoodHeader EXCEPT !.consent_screen = x] : x \in {0, 62, 63, 64, 255}}
  \cup {[GoodHeader EXCEPT !.consent_language = l] : l \in Languages}
  \cup {[GoodHeader EXCEPT !.vendor_list_version = x] : x \in {0, 4095, 4096}}
  \cup {[GoodHeader EXCEPT !.purposes_allowed = p] : p \in PurposeSets}

\* the capacities a BitSet holding `bits` for `max` vendors comes with:
\* BitVec::from_elem(max, _) and BitSet::new() grown by insert
Capacities(bits, max) ==
  {max, IF bits = {} THEN 0 ELSE 1 + CHOOSE t \in bits : \A u \in bits : u <= t}

\* vendor_consent over 0-based positions 0..max-1: a run lo..hi with at most
\* one position taken out
ConsentShapes(max) ==
  {(lo..hi) \ h : lo \in {0, 1}, hi \in {-1, 0, 4, max \div 2 - 1, max - 2, max - 1} \cap (-1..(max - 1)),
                  h \in {{}, {3}, {max \div 2}}}

VendorParts(maxes) ==
  UNION {UNION {{[max_vendor_id |-> m, vendor_consent |-> [nbits |-> c, bits |-> b]]
                  : c \in Capacities(b, m)} : b \in ConsentShapes(m)} : m \in maxes}

\* a max_vendor_id past the 16-bit field (usize holds it), met with a
\* vendor_consent of a few low positions
WideMaxVendorId == 65536 + 4

Record(h, vp) ==
  [created |-> h.created, last_updated |-> h.last_updated, cmp_id |-> h.cmp_id,
   cmp_version |-> h.cmp_version, consent_screen |-> h.consent_screen,
   consent_language |-> h.consent_language,
   vendor_list_version |-> h.vendor_list_version,
   purposes_allowed |-> h.purposes_allowed,
   max_vendor_id |-> vp.max_vendor_id, vendor_consent |-> vp.vendor_consent]

\* the records a caller builds: every vendor part under the good header, and
\* every header over a few vendor parts
Records ==
  {Record(GoodHeader, vp) : vp \in VendorParts(0..MaxVendorId)}
  \cup {Record(GoodHeader, [max_vendor_id |-> WideMaxVendorId,
                             vendor_consent |-> [nbits |-> c, bits |-> b]])
          : c \in {8, 16}, b \in {{}, {0}, {0, 1, 2}}}
  \cup {Record(h, vp) : h \in Headers, vp \in VendorParts({4, 8, 31})}

----------------------------------------------------------------------------
(* Strings that reach from_str from outside: consent strings of other      *)
(* producers, cut short or not, in either base64 alphabet.                 *)

\* the fixed fields of the string of tests::deserialize_good with the
\* version, the two language letters and max_vendor_id as given
WireHeader(version, l1, l2, max) ==
  ToBits(6, version)
  \o write_wide(36, decisecs(T0)) \o write_wide(36, decisecs(T0))
  \o ToBits(12, 7) \o ToBits(12, 1) \o ToBits(6, 3)
  \o ToBits(6, l1) \o ToBits(6, l2)
  \o ToBits(12, 8)
  \o ToBits(8, 224) \o ToBits(8, 0) \o ToBits(8, 0)
  \o ToBits(16, max)

\* a bitfield payload: selector 0 and `len` bits, bit i set for the IDs of ids
WireBitfield(ids, len) == <<0>> \o [i \in 1..len |-> IF i \in ids THEN 1 ELSE 0]

\* a range payload: selector 1, the default flag, the declared count and the
\* entries that follow it
WireRange(default, num_entries, entries) ==
  <<1>> \o ToBits(1, default) \o ToBits(12, num_entries) \o entries_bits(entries, 1)

WireMax == 20

\* entry lists over max_vendor_id = 20: in order, out of order, repeated,
\* overlapping, empty (start > end), and with IDs outside 1..=20
WireEntryLists ==
  {<<>>,
   <<Single(5), Range(10, 12)>>,
   <<Range(10, 12), Single(5)>>,
   <<Single(5), Single(5)>>,
   <<Range(3, 8), Range(6, 12)>>,
   <<Range(1, 20)>>,
   <<Range(12, 10)>>,
   <<Single(0)>>,
   <<Single(21)>>,
   <<Single(0), Single(5)>>,
   <<Range(0, 3)>>,
   <<Range(18, 21)>>}

\* the whole records, padded with zero bits to a byte boundary
WireRecords ==
  {byte_align(WireHeader(ver, 4, 13, WireMax) \o WireRange(1, 1, <<Single(9)>>))
     : ver \in {0, 1, 2, 33, 63}}
  \cup {byte_align(WireHeader(1, l[1], l[2], WireMax) \o WireRange(1, 1, <<Single(9)>>))
     : l \in {<<25, 0>>, <<26, 0>>, <<30, 4>>, <<31, 4>>, <<4, 63>>}}
  \cup {byte_align(WireHeader(1, 4, 13, WireMax) \o WireRange(d, Len(es) + more, es))
     : d \in {0, 1}, more \in {0, 1}, es \in WireEntryLists}
  \cup UNION {{byte_align(WireHeader(1, 4, 13, m) \o WireBitfield(ids, len))
                 : ids \in {{}, {1}, {2, 3}, {1, 8}, {9, 11}, {12, 16}},
                   len \in {m, 8 * CeilDiv8(m), 8 * CeilDiv8(m) + (m % 8)}}
              : m \in {3, 8, 11}}

\* the first k bytes of a record
Truncations(bits) == {SubSeq(bits, 1, 8 * k) : k \in 0..(Len(bits) \div 8)}

\* '=' up to a multiple of 4 characters
Base64Pad(s) == s \o [i \in 1..((4 - (Len(s) % 4)) % 4) |-> "="]

\* the base64 text of a byte buffer in both alphabets, padded or not
Armors(raw) ==
  {Base64Encode(STANDARD, raw), Base64Pad(Base64Encode(STANDARD, raw)),
   Base64Encode(URL_SAFE, raw), Base64Pad(Base64Encode(URL_SAFE, raw))}

WireInputs == UNION {UNION {Armors(t) : t \in Truncations(w)} : w \in WireRecords}

\* the positions examples/modify_consent.rs removes from vendor_consent
RemovedPositions == {0, 9}

----------------------------------------------------------------------------
(* Operations                                                              *)

Init ==
  /\ v \in Records \cup {NoValue}
  /\ out = NoValue
  /\ input = <<>>
  /\ parsed = NoValue
  /\ again = NoValue
  /\ edits = 0

\* v.to_string()
Serialize ==
  /\ v # NoValue
  /\ out = NoValue
  /\ out' = to_string(v)
  /\ UNCHANGED <<v, input, parsed, again, edits>>

\* out.parse(): the caller parses the string it has just produced
Parse ==
  /\ out.tag = "Ok"
  /\ parsed = NoValue
  /\ input' = out.str
  /\ parsed' = from_str(out.str)
  /\ UNCHANGED <<v, out, again, edits>>

\* s.parse() on a string received from elsewhere
ParseWire ==
  /\ v = NoValue
  /\ parsed = NoValue
  /\ \E w \in WireInputs :
       /\ input' = w
       /\ parsed' = from_str(w)
  /\ UNCHANGED <<v, out, again, edits>>

\* to_string on the record that from_str returned
Reserialize ==
  /\ parsed.tag = "Ok"
  /\ again = NoValue
  /\ again' = to_string(parsed.v)
  /\ UNCHANGED <<v, out, input, parsed, edits>>

\* examples/modify_consent.rs: the caller takes the parsed record, sets
\* last_updated, removes a vendor and goes on with the result
Modify ==
  /\ parsed.tag = "Ok"
  /\ edits < MaxEdits
  /\ \E i \in RemovedPositions :
       v' = [parsed.v EXCEPT !.last_updated = T1,
                             !.vendor_consent = BitSetRemove(@, i)]
  /\ out' = NoValue
  /\ input' = <<>>
  /\ parsed' = NoValue
  /\ again' = NoValue
  /\ edits' = edits + 1

Next == Serialize \/ Parse \/ ParseWire \/ Reserialize \/ Modify

Spec == Init /\ [][Next]_vars
----------------------------------------------------------------------------
(* Properties.  What the format asks for is restated here on its own terms *)
(* and compared with what the calls returned.                              *)

\* two bytes, both in 'a'..='z'
LowercasePair(lang) == Len(lang) = 2 /\ \A i \in 1..2 : lang[i] \in 97..122

\* floor(epoch milliseconds / 100) of a timestamp, on the limbs
FloorDeci(dt) == WideMulAdd(dt.secs, 10, dt.nanos \div 100000000)

\* a record the format can hold, built the way the tests build theirs:
\* 3 bytes of purposes, vendor_consent made by from_elem(max_vendor_id, _)
ValidFields(r) ==
  /\ LowercasePair(r.consent_language)
  /\ FloorDeci(r.created).hi < Pow2(20)
  /\ FloorDeci(r.last_updated).hi < Pow2(20)
  /\ r.cmp_id < Pow2(12) /\ r.cmp_version < Pow2(12)
  /\ r.consent_screen < Pow2(6) /\ r.vendor_list_version < Pow2(12)
  /\ r.purposes_allowed.nbits = 24
  /\ r.max_vendor_id < Pow2(16)
  /\ r.vendor_consent.nbits = r.max_vendor_id
  /\ r.vendor_consent.bits \subseteq 0..(r.max_vendor_id - 1)

\* a valid record whose timestamps are already at 100 ms resolution
ValidRecord(r) ==
  /\ ValidFields(r)
  /\ r.created.nanos % 100000000 = 0
  /\ r.last_updated.nanos % 100000000 = 0

\* C1 (as claimed): round trip. For every valid record, for every
\* max_vendor_id and both encodings, to_string succeeds and from_str of its
\* string succeeds and returns a record equal to the original.
C1_RoundTrip ==
  (v # NoValue /\ ValidRecord(v)) =>
    /\ out # NoValue => out.tag = "Ok"
    /\ (out.tag = "Ok" /\ parsed # NoValue) =>
         (parsed.tag = "Ok" /\ V1Eq(parsed.v, v))

\* C2 (as claimed): timestamp truncation is idempotent. For every valid
\* record, whatever the resolution of its timestamps, the two 36-bit values
\* written are floor(epoch ms / 100), and re-encoding the decoded record
\* gives the same string: the decode succeeds and to_string of its record
\* equals the first output.
C2_TruncationIdempotent ==
  (out.tag = "Ok" /\ ValidFields(v)) =>
    /\ read_wide(out.raw, 6, 36) = FloorDeci(v.created)
    /\ read_wide(out.raw, 42, 36) = FloorDeci(v.last_updated)
    /\ parsed # NoValue => parsed.tag = "Ok"
    /\ (parsed.tag = "Ok" /\ again # NoValue) =>
         (again.tag = "Ok" /\ again.str = out.str)

\* base64 text: unpadded length not 1 mod 4, all characters from the standard
\* alphabet or all from the URL-safe one, at most two '=' at the end
IsBase64Text(s) ==
  LET t == StripPad(s, 2)
  IN /\ Len(t) % 4 # 1
     /\ \/ \A k \in 1..Len(t) : \E i \in 1..64 : STANDARD[i] = t[k]
        \/ \A k \in 1..Len(t) : \E i \in 1..64 : URL_SAFE[i] = t[k]

\* C3 (as claimed): from_str accepts base64 text in the standard and in the
\* URL-safe alphabet, padded or not: it never answers such a text, and so
\* never a string to_string produced, with the base64 decode error.
C3_DecodeAcceptsBothAlphabets ==
  (parsed # NoValue /\ IsBase64Text(input)) =>
    ~(parsed.tag = "Err" /\ parsed.kind = "Base64DecodeError")

\* the bytes behind the string handed to from_str
InputData == base64_decode(input)

\* the range entries from bit pos on need bits past the end of data
RECURSIVE EntriesEndEarly(_, _, _)
EntriesEndEarly(data, pos, n) ==
  IF n = 0 THEN FALSE
  ELSE IF pos + 1 > Len(data) THEN TRUE
  ELSE LET width == IF data[pos + 1] = 0 THEN 17 ELSE 33
       IN IF pos + width > Len(data) THEN TRUE
          ELSE EntriesEndEarly(data, pos + width, n - 1)

\* the buffer ends before all bits of the version 1 record it starts: the
\* 173 bits up to the selector, then max_vendor_id bitfield bits or the 13
\* bits of flag and count and the declared entries
EndsEarly(data) ==
  \/ Len(data) < 173
  \/ /\ data[173] = 0
     /\ Len(data) < 173 + FromBits(SubSeq(data, 157, 172))
  \/ /\ data[173] = 1
     /\ \/ Len(data) < 186
        \/ EntriesEndEarly(data, 186, FromBits(SubSeq(data, 175, 186)))

\* the two language letters, where the buffer holds them, are in 'a'..='z'
LettersInRange(data) ==
  Len(data) >= 120 =>
    /\ FromBits(SubSeq(data, 109, 114)) < 26
    /\ FromBits(SubSeq(data, 115, 120)) < 26

\* C4 (as claimed): truncated input. For every input of version 1 whose
\* bytes end before all bits of the record have been read, from_str returns
\* the end-of-input error: no panic, no other result. Stated for the inputs
\* whose language letters are in range, so that no other error is due
\* before the end of the input is met.
C4_TruncatedIsEndOfInput ==
  (/\ parsed # NoValue
   /\ InputData.tag = "Ok"
   /\ (Len(InputData.data) >= 6 => FromBits(SubSeq(InputData.data, 1, 6)) = 1)
   /\ LettersInRange(InputData.data)
   /\ EndsEarly(InputData.data))
  => parsed = ErrIo

\* C5: language validation on encode. to_string returns the
\* invalid-language error (Error::Other, no string) exactly for the records
\* whose consent_language is not two bytes in 'a'..='z'.
C5_LanguageValidation ==
  out # NoValue => (out = ErrOther <=> ~LowercasePair(v.consent_language))

\* C5 witness: to_string has rejected the uppercase language "EN"
C5_Witness == out = ErrOther /\ v.consent_language = <<69, 78>>

\* C6: unsupported version. For every input with at least one decoded byte,
\* a version v other than 1 in the first 6 bits gives UnsupportedVersion(v),
\* whatever follows and however short the input is; version 1 never does.
C6_UnsupportedVersion ==
  (parsed # NoValue /\ InputData.tag = "Ok" /\ Len(InputData.data) >= 8) =>
    LET version == FromBits(SubSeq(InputData.data, 1, 6))
    IN IF version # 1
         THEN parsed = [tag |-> "Err", kind |-> "UnsupportedVersion", code |-> version]
         ELSE ~(parsed.tag = "Err" /\ parsed.kind = "UnsupportedVersion")

\* C6 witness: a one-byte input of version 33 was answered with
\* UnsupportedVersion(33)
C6_Witness ==
  /\ Len(input) = 2
  /\ parsed = [tag |-> "Err", kind |-> "UnsupportedVersion", code |-> 33]

\* 13 + 17 per Single + 33 per Range
RangeListBits(range) ==
  13 + 17 * Cardinality({k \in 1..Len(range) : range[k].kind = "Single"})
     + 33 * Cardinality({k \in 1..Len(range) : range[k].kind = "Range"})

\* C7 (as claimed): encoding minimality. The payload written under the
\* chosen selector is no longer than the payload of the other selector: the
\* range list of the default chosen, or the max_vendor_id bits of a bitfield.
C7_EncodingMinimality ==
  out.tag = "Ok" =>
    IF out.encoding_type = 0
      THEN Len(out.payload) <= RangeListBits(out.range)
      ELSE Len(out.payload) <= v.max_vendor_id

\* the bit length of the range list of the maximal runs of a set of positions
CandidateBits(S) ==
  13 + 17 * Cardinality({i \in S : (i - 1) \notin S /\ (i + 1) \notin S})
     + 33 * Cardinality({i \in S : (i - 1) \notin S /\ (i + 1) \in S})

Granted(r) == r.vendor_consent.bits
Withheld(r) == (0..(r.max_vendor_id - 1)) \ r.vendor_consent.bits

\* C8 (as claimed, its range-mode case): when range mode is written, the
\* written list is no longer than the list of granted IDs and no longer than
\* the list of withheld IDs.
C8_MostCompact ==
  (out.tag = "Ok" /\ out.encoding_type = 1) =>
    /\ Len(out.payload) <= CandidateBits(Granted(v))
    /\ Len(out.payload) <= CandidateBits(Withheld(v))

\* C8 (amended): the written payload is the candidate the default-consent
\* threshold picks (withheld IDs when |vendor_consent| >= max_vendor_id / 2,
\* granted IDs otherwise), not the shortest of all. Range mode is written
\* exactly when that candidate is shorter than max_vendor_id, the nominal
\* length of the bitfield, and then the payload has the candidate's length.
C8_ThresholdCandidate ==
  out.tag = "Ok" =>
    LET cand == IF Cardinality(Granted(v)) >= v.max_vendor_id \div 2
                  THEN CandidateBits(Withheld(v)) ELSE CandidateBits(Granted(v))
    IN IF out.encoding_type = 1
         THEN Len(out.payload) = cand /\ cand < v.max_vendor_id
         ELSE v.max_vendor_id <= cand

\* C8 witness: range mode was written with the longer of the two range lists
C8_Witness ==
  /\ out.tag = "Ok"
  /\ out.encoding_type = 1
  /\ out.default_consent
  /\ Len(out.payload) > CandidateBits(Granted(v))

\* C9 (as claimed): bitfield write width. In bitfield mode the bits after the
\* selector are one bit per vendor ID 1..=max_vendor_id, then zero bits up to
\* the byte boundary and nothing more, whatever the capacity of the set.
C9_BitfieldWidth ==
  (out.tag = "Ok" /\ out.encoding_type = 0) =>
    /\ Len(out.raw) = 8 * CeilDiv8(out.head_len + v.max_vendor_id)
    /\ \A i \in 1..(Len(out.raw) - out.head_len) :
         out.raw[out.head_len + i] =
           IF i <= v.max_vendor_id /\ (i - 1) \in v.vendor_consent.bits THEN 1 ELSE 0

\* a field of the record does not fit its width on the wire
Overflows(r) ==
  \/ r.cmp_id >= Pow2(12) \/ r.cmp_version >= Pow2(12)
  \/ r.vendor_list_version >= Pow2(12)
  \/ r.consent_screen >= Pow2(6)
  \/ r.max_vendor_id >= Pow2(16)
  \/ FloorDeci(r.created).hi >= Pow2(20)
  \/ FloorDeci(r.last_updated).hi >= Pow2(20)

\* C10 (as claimed): no silent truncation. to_string returns an error, and no
\* string, for every record with a field that does not fit its width.
C10_NoSilentTruncation ==
  (out # NoValue /\ Overflows(v)) => out.tag = "Err"

\* C11 (as claimed): purposes width. For every record that to_string accepts,
\* purposes_allowed takes exactly 24 bits, bit i for purpose i + 1, between
\* vendor_list_version and max_vendor_id, whatever the capacity of the set:
\* the selector is bit 173 and the 16 bits before it hold max_vendor_id.
\* from_str reads 24 bits for it.
C11_PurposesWidth ==
  /\ out.tag = "Ok" =>
       /\ out.head_len = 173
       /\ FromBits(SubSeq(out.raw, 121, 132)) = v.vendor_list_version
       /\ \A i \in 1..24 :
            out.raw[132 + i] = IF (i - 1) \in v.purposes_allowed.bits THEN 1 ELSE 0
       /\ FromBits(SubSeq(out.raw, 157, 172)) = v.max_vendor_id % 65536
  /\ parsed.tag = "Ok" => parsed.v.purposes_allowed.nbits = 24

\* C12 (as claimed): vendor ID bound. Every record that from_str returns, in
\* bitfield and in range mode and for every bit pattern of the input, has
\* vendor_consent within the IDs 1..=max_vendor_id (positions 0..max - 1).
C12_VendorIdBound ==
  parsed.tag = "Ok" =>
    parsed.v.vendor_consent.bits \subseteq 0..(parsed.v.max_vendor_id - 1)

\* a version 1 record in bitfield mode that holds the 173 bits up to the
\* selector, exactly max_vendor_id bitmap bits and zero bits up to the byte
\* boundary
ExactBitfieldRecord(data) ==
  /\ Len(data) >= 173
  /\ FromBits(SubSeq(data, 1, 6)) = 1
  /\ LettersInRange(data)
  /\ data[173] = 0
  /\ LET max == FromBits(SubSeq(data, 157, 172))
     IN /\ Len(data) = 8 * CeilDiv8(173 + max)
        /\ \A i \in (173 + max + 1)..Len(data) : data[i] = 0

\* C13 (as claimed): bitfield read width. In bitfield mode from_str consumes
\* exactly max_vendor_id bits after the selector, so an input with the
\* header, the selector and exactly max_vendor_id bitmap bits padded to a
\* byte boundary decodes to the IDs whose bit is 1.
C13_BitfieldReadWidth ==
  (parsed # NoValue /\ InputData.tag = "Ok" /\ ExactBitfieldRecord(InputData.data)) =>
    /\ parsed.tag = "Ok"
    /\ parsed.v.vendor_consent.bits =
         {i - 1 : i \in {j \in 1..parsed.v.max_vendor_id : InputData.data[173 + j] = 1}}

\* the entries of a range payload from bit pos on, as <<start, end>> pairs
\* (a single ID is <<id, id>>), without their order or their repetitions
RECURSIVE WireEntries(_, _, _)
WireEntries(data, pos, n) ==
  IF n = 0 THEN {}
  ELSE IF data[pos + 1] = 0
    THEN {<<FromBits(SubSeq(data, pos + 2, pos + 17)),
            FromBits(SubSeq(data, pos + 2, pos + 17))>>}
         \cup WireEntries(data, pos + 17, n - 1)
    ELSE {<<FromBits(SubSeq(data, pos + 2, pos + 17)),
            FromBits(SubSeq(data, pos + 18, pos + 33))>>}
         \cup WireEntries(data, pos + 33, n - 1)

\* a complete version 1 record in range mode
CompleteRangeRecord(data) ==
  /\ Len(data) >= 186
  /\ FromBits(SubSeq(data, 1, 6)) = 1
  /\ LettersInRange(data)
  /\ data[173] = 1
  /\ ~EntriesEndEarly(data, 186, FromBits(SubSeq(data, 175, 186)))

RangeEntriesOf(data) == WireEntries(data, 186, FromBits(SubSeq(data, 175, 186)))
RangeMaxOf(data) == FromBits(SubSeq(data, 157, 172))

\* the vendor IDs that at least one entry covers
CoveredIds(entries) == UNION {e[1]..e[2] : e \in entries}

\* C14: range decode. For every complete range payload whose entry IDs all
\* lie in 1..=max_vendor_id, from_str returns the record whose vendor_consent
\* is the set of IDs covered by at least one entry when the default flag is
\* 0, and the IDs of 1..=max_vendor_id that no entry covers when it is 1;
\* the order of the entries, overlaps and repetitions do not matter.
C14_RangeDecode ==
  (/\ parsed # NoValue
   /\ InputData.tag = "Ok"
   /\ CompleteRangeRecord(InputData.data)
   /\ \A e \in RangeEntriesOf(InputData.data) :
        {e[1], e[2]} \subseteq 1..RangeMaxOf(InputData.data))
  => /\ parsed.tag = "Ok"
     /\ parsed.v.max_vendor_id = RangeMaxOf(InputData.data)
     /\ parsed.v.vendor_consent.bits =
          IF InputData.data[174] = 0
            THEN {id - 1 : id \in CoveredIds(RangeEntriesOf(InputData.data))}
            ELSE {id - 1 : id \in (1..RangeMaxOf(InputData.data))
                                   \ CoveredIds(RangeEntriesOf(InputData.data))}

\* C14 witness: a payload with default 0 and the entries Single(5) and
\* Range(10, 12) over max_vendor_id 20 was decoded to {5, 10, 11, 12}
C14_Witness ==
  /\ parsed.tag = "Ok"
  /\ InputData.tag = "Ok"
  /\ CompleteRangeRecord(InputData.data)
  /\ InputData.data[174] = 0
  /\ RangeEntriesOf(InputData.data) = {<<5, 5>>, <<10, 12>>}
  /\ parsed.v.max_vendor_id = 20
  /\ parsed.v.vendor_consent.bits = {4, 9, 10, 11}

\* the maximal runs of consecutive members of S, counted by their first member
RunStarts(S) == {x \in S : (x - 1) \notin S}

\* what the run detector owes for the set S of 0-based positions: range is
\* the list it returned and count the bit count it returned
DetectorCorrect(S, range, count) ==
  /\ UNION {range[k].start..range[k].end : k \in 1..Len(range)} = {x + 1 : x \in S}
  /\ \A k \in 1..Len(range) :
       /\ range[k].kind \in {"Single", "Range"}
       /\ range[k].kind = "Single" => range[k].start = range[k].end
       /\ range[k].kind = "Range" => range[k].start < range[k].end
  /\ \A k \in 1..(Len(range) - 1) : range[k].end + 1 < range[k + 1].start
  /\ Len(range) = Cardinality(RunStarts(S))
  /\ count = RangeListBits(range)

\* C15: contiguous-run detector. The list to_string computed (create_true_range
\* on the granted positions when the default is false, create_false_range on
\* the positions of 0..max_vendor_id-1 not granted when it is true) covers
\* exactly the IDs position+1 of that set, in ascending order, with entries
\* disjoint and non-adjacent, a Range(s, e) with s < e for every maximal run
\* of two or more positions and a Single for every maximal run of one, as
\* many entries as maximal runs, and a bit count of 13 + 17*singles + 33*ranges.
C15_RunDetector ==
  /\ out.tag = "Ok" =>
       DetectorCorrect(IF out.default_consent THEN Withheld(v) ELSE Granted(v),
                       out.range, out.range_encoded_len)
  /\ again.tag = "Ok" =>
       DetectorCorrect(IF again.default_consent THEN Withheld(parsed.v)
                                                ELSE Granted(parsed.v),
                       again.range, again.range_encoded_len)

\* C15 witness: the detector returned a list holding both a Single and a
\* Range for the granted positions of a record
C15_Witness ==
  /\ out.tag = "Ok"
  /\ ~out.default_consent
  /\ \E j, k \in 1..Len(out.range) :
       out.range[j].kind = "Single" /\ out.range[k].kind = "Range"

\* the IDs a list of entries covers
ListIds(range) == UNION {range[k].start..range[k].end : k \in 1..Len(range)}

\* what C16 asks of one call: rec is the record and res what to_string returned
ThresholdCorrect(rec, res) ==
  /\ res.default_consent =
       (Cardinality(rec.vendor_consent.bits) >= rec.max_vendor_id \div 2)
  /\ ListIds(res.range) =
       IF res.default_consent THEN {x + 1 : x \in Withheld(rec)}
                              ELSE {x + 1 : x \in Granted(rec)}
  /\ res.encoding_type = 1 =>
       /\ res.raw[res.head_len] = 1
       /\ res.payload[1] = IF res.default_consent THEN 1 ELSE 0
       /\ res.raw[res.head_len + 1] = res.payload[1]

C17_DecodeTotal ==
  parsed # NoValue => parsed.tag \in {"Ok", "Err"}

\* C18 (as claimed): decoded language. Every record from_str returns has a
\* consent_language of two bytes in 'a'..='z', so to_string on the record as
\* returned never fails with the invalid-language error.
C18_DecodedLanguageLowercase ==
  /\ parsed.tag = "Ok" => LowercasePair(parsed.v.consent_language)
  /\ (parsed.tag = "Ok" /\ again # NoValue) => again # ErrOther

\* a record whose fields C19 speaks about: max_vendor_id in 16 bits and
\* every consented position an ID of 1..=max_vendor_id
InVendorRange(rec) ==
  /\ rec.max_vendor_id <= 65535
  /\ rec.vendor_consent.bits \subseteq 0..(rec.max_vendor_id - 1)

\* what C19 asks of one call that wrote the range encoding
RangeFieldsFit(rec, res) ==
  /\ 13 + 17 * Len(res.range) < rec.max_vendor_id
  /\ RangeListBits(res.range) < rec.max_vendor_id
  /\ Len(res.range) <= 4095
  /\ \A k \in 1..Len(res.range) :
       /\ res.range[k].start \in 1..65535
       /\ res.range[k].end \in 1..65535
       /\ res.range[k].end <= rec.max_vendor_id
  /\ Len(res.payload) = RangeListBits(res.range)
  /\ FromBits(SubSeq(res.payload, 2, 13)) = Len(res.range)
  /\ WireEntries(res.payload, 13, Len(res.range)) =
       {<<res.range[k].start, res.range[k].end>> : k \in 1..Len(res.range)}

\* C19: range entries fit. When to_string writes the range encoding for a
\* record with max_vendor_id <= 65535 and vendor_consent within
\* 1..=max_vendor_id, 13 + 17*entries < max_vendor_id, so there are at most
\* 4095 entries, every entry ID is at most 65535, and the 12-bit num_entries
\* field and the 16-bit ID fields written hold exactly those values.
C19_RangeEntriesFit ==
  /\ (out.tag = "Ok" /\ out.encoding_type = 1 /\ InVendorRange(v)) =>
       RangeFieldsFit(v, out)
  /\ (again.tag = "Ok" /\ again.encoding_type = 1 /\ InVendorRange(parsed.v)) =>
       RangeFieldsFit(parsed.v, again)

\* C19 witness: the range encoding was written with two entries for a record
\* within the vendor range
C19_Witness ==
  /\ out.tag = "Ok"
  /\ out.encoding_type = 1
  /\ InVendorRange(v)
  /\ Len(out.range) >= 2

====
